---- MODULE Spec2Model ----
(***************************************************************************)
(* In-circuit G2 arithmetic of std/algebra/native/sw_bls12377/g2.go.       *)
(*                                                                         *)
(* The extension field E2 and the inner-curve configuration are scaled     *)
(* down to a curve of the same shape: y^2 = x^3 + bTwist over the prime    *)
(* field of fieldModulus elements, j-invariant 0, of prime order           *)
(* fr = lambda^2 + lambda + 1 (as for BLS12-377, where lambda = x0^2 - 1   *)
(* and fr = x0^4 - x0^2 + 1), lambda even, no point with Y = 0, and the    *)
(* endomorphism phi2 (X scaled by a cube root of unity) acting as [lambda].*)
(*                                                                         *)
(* A circuit value carries two flags besides its coordinates:              *)
(*   sat - every constraint emitted on the way to it is satisfiable,       *)
(*   nz  - no DivUnchecked on the way to it had a zero denominator.        *)
(***************************************************************************)
EXTENDS Integers, Sequences, FiniteSets, TLC

VARIABLES op, in1, in2, sc, complete, alias, obj1, out, pc

vars == <<op, in1, in2, sc, complete, alias, obj1, out, pc>>

-----------------------------------------------------------------------------
(* Inner-curve configuration (getInnerCurveConfig) on the scaled-down curve *)

fieldModulus == 67
bTwist == 2
thirdRootOne2 == 37
lambda == 8
fr == 73
psiCoeffX == 29
psiCoeffY == 66

(* Bounds of the input sets *)
MaxProbeX == 2
MaxHintInput == 230
MaxAdjust == 4
MaxConstScalar == 80
MaxDoubleN == 3

-----------------------------------------------------------------------------
(* fields_bls12377.E2, as far as g2.go uses it *)

E2Add(a, b) == (a + b) % fieldModulus
E2Sub(a, b) == (a - b) % fieldModulus
E2Mul(a, b) == (a * b) % fieldModulus
E2Neg(a) == (0 - a) % fieldModulus
E2Square(a) == (a * a) % fieldModulus
E2MulByFp(a, c) == (a * c) % fieldModulus
E2Double(a) == (a + a) % fieldModulus
E2IsZero(a) == a = 0
E2Select(b, a1, a2) == IF b THEN a1 ELSE a2

RECURSIVE E2Exp(_, _)
E2Exp(a, e) ==
    IF e = 0 THEN 1
    ELSE LET h == E2Exp(a, e \div 2)
             h2 == E2Square(h)
         IN IF e % 2 = 1 THEN E2Mul(h2, a) ELSE h2

(* Inverse of the hint behind DivUnchecked: the inverse of 0 is 0 *)
E2Inverse(a) == E2Exp(a, fieldModulus - 2)

(* DivUnchecked: the hint returns n * d^-1 and the circuit asserts          *)
(* result * d == n; with d = 0 the assertion holds only for n = 0.         *)
DivValue(n, d) == E2Mul(n, E2Inverse(d))
DivSat(n, d) == d # 0 \/ n = 0
DivNz(d) == d # 0

-----------------------------------------------------------------------------
(* g2AffP *)

Pt(x, y) == [X |-> x, Y |-> y, sat |-> TRUE, nz |-> TRUE]
Coords(p) == <<p.X, p.Y>>
Zero == Pt(0, 0)
IsSentinel(p) == p.X = 0 /\ p.Y = 0
OnCurve(x, y) == E2Square(y) = E2Add(E2Mul(E2Square(x), x), bTwist)

FieldElems == 0 .. (fieldModulus - 1)
CurvePoints == {Pt(x, y) : <<x, y>> \in {c \in FieldElems \X FieldElems : OnCurve(c[1], c[2])}}
ValidPoints == CurvePoints \cup {Zero}
ProbePoints == {Pt(x, 0) : x \in 1 .. MaxProbeX}
InputPoints == ValidPoints \cup ProbePoints

(* Neg outputs -p *)
Neg(p1) == [p1 EXCEPT !.Y = E2Neg(p1.Y)]

(* AddAssign add p1 to p and return p *)
AddAssign(p, p1) ==
    LET n == E2Sub(p1.Y, p.Y)
        d == E2Sub(p1.X, p.X)
        l == DivValue(n, d)
        xr == E2Sub(E2Sub(E2Square(l), p1.X), p.X)
        yr == E2Sub(E2Mul(l, E2Sub(p.X, xr)), p.Y)
    IN [X |-> xr, Y |-> yr,
        sat |-> p.sat /\ p1.sat /\ DivSat(n, d),
        nz |-> p.nz /\ p1.nz /\ DivNz(d)]

(* Select sets p1 if b=1, p2 if b=0 *)
Select(b, p1, p2) ==
    [X |-> E2Select(b, p1.X, p2.X), Y |-> E2Select(b, p1.Y, p2.Y),
     sat |-> p1.sat /\ p2.sat, nz |-> p1.nz /\ p2.nz]

AddUnified_Selector1First(p, q) ==
    LET selector1 == E2IsZero(p.X) /\ E2IsZero(p.Y)
        selector2 == E2IsZero(q.X) /\ E2IsZero(q.Y)
        pxqx == E2Mul(p.X, q.X)
        pxplusqx == E2Add(p.X, q.X)
        num == E2Sub(E2Mul(pxplusqx, pxplusqx), pxqx)
        denum0 == E2Add(p.Y, q.Y)
        selector3 == E2IsZero(denum0)
        denum == E2Select(selector3, 1, denum0)
        l == DivValue(num, denum)
        xr == E2Sub(E2Square(l), pxplusqx)
        yr == E2Sub(E2Mul(E2Sub(p.X, xr), l), p.Y)
        result0 == [X |-> xr, Y |-> yr,
                    sat |-> p.sat /\ q.sat /\ DivSat(num, denum),
                    nz |-> p.nz /\ q.nz /\ DivNz(denum)]
        result3 == Select(selector3, Zero, result0)
        result2 == Select(selector2, p, result3)
    IN Select(selector1, q, result2)

AddUnified(p, q) ==
    LET selector1 == E2IsZero(p.X) /\ E2IsZero(p.Y)
        selector2 == E2IsZero(q.X) /\ E2IsZero(q.Y)
        pxqx == E2Mul(p.X, q.X)
        pxplusqx == E2Add(p.X, q.X)
        num == E2Sub(E2Mul(pxplusqx, pxplusqx), pxqx)
        denum0 == E2Add(p.Y, q.Y)
        selector3 == E2IsZero(denum0)
        denum == E2Select(selector3, 1, denum0)
        l == DivValue(num, denum)
        xr == E2Sub(E2Square(l), pxplusqx)
        yr == E2Sub(E2Mul(E2Sub(p.X, xr), l), p.Y)
        result0 == [X |-> xr, Y |-> yr,
                    sat |-> p.sat /\ q.sat /\ DivSat(num, denum),
                    nz |-> p.nz /\ q.nz /\ DivNz(denum)]
        result1 == Select(selector1, q, result0)
        result2 == Select(selector2, p, result1)
    IN Select(selector3, Zero, result2)

(* Double compute 2*p1 (curves with a = 0) *)
Double(p1) ==
    LET n == E2MulByFp(E2Square(p1.X), 3)
        d == E2MulByFp(p1.Y, 2)
        l == DivValue(n, d)
        xr == E2Sub(E2Sub(E2Square(l), p1.X), p1.X)
        yr == E2Sub(E2Mul(l, E2Sub(p1.X, xr)), p1.Y)
    IN [X |-> xr, Y |-> yr,
        sat |-> p1.sat /\ DivSat(n, d),
        nz |-> p1.nz /\ DivNz(d)]

(* x3 of DoubleAndAdd, the X-coordinate of p1 + p2 *)
DoubleAndAddX3(p1, p2) ==
    LET l1 == DivValue(E2Sub(p1.Y, p2.Y), E2Sub(p1.X, p2.X))
    IN E2Sub(E2Sub(E2Square(l1), p1.X), p2.X)

DoubleAndAdd_NoNeg(p1, p2) ==
    LET n1 == E2Sub(p1.Y, p2.Y)
        d1 == E2Sub(p1.X, p2.X)
        l1 == DivValue(n1, d1)
        x3 == E2Sub(E2Sub(E2Square(l1), p1.X), p2.X)
        n2 == E2Double(p1.Y)
        d2 == E2Sub(x3, p1.X)
        l2 == E2Add(DivValue(n2, d2), l1)
        x4 == E2Sub(E2Sub(E2Square(l2), p1.X), x3)
        y4 == E2Sub(E2Mul(l2, E2Sub(p1.X, x4)), p1.Y)
    IN [X |-> x4, Y |-> y4,
        sat |-> p1.sat /\ p2.sat /\ DivSat(n1, d1) /\ DivSat(n2, d2),
        nz |-> p1.nz /\ p2.nz /\ DivNz(d1) /\ DivNz(d2)]

(* DoubleAndAdd computes 2*p1+p2 in affine coords *)
DoubleAndAdd(p1, p2) ==
    LET n1 == E2Sub(p1.Y, p2.Y)
        d1 == E2Sub(p1.X, p2.X)
        l1 == DivValue(n1, d1)
        x3 == E2Sub(E2Sub(E2Square(l1), p1.X), p2.X)
        n2 == E2Double(p1.Y)
        d2 == E2Sub(x3, p1.X)
        l2 == E2Neg(E2Add(DivValue(n2, d2), l1))
        x4 == E2Sub(E2Sub(E2Square(l2), p1.X), x3)
        y4 == E2Sub(E2Mul(l2, E2Sub(p1.X, x4)), p1.Y)
    IN [X |-> x4, Y |-> y4,
        sat |-> p1.sat /\ p2.sat /\ DivSat(n1, d1) /\ DivSat(n2, d2),
        nz |-> p1.nz /\ p2.nz /\ DivNz(d1) /\ DivNz(d2)]

-----------------------------------------------------------------------------
(* Native (non-circuit) group law, the reference the circuit is tested      *)
(* against                                                                  *)

GroupAdd(p, q) ==
    IF IsSentinel(p) THEN Pt(q.X, q.Y)
    ELSE IF IsSentinel(q) THEN Pt(p.X, p.Y)
    ELSE IF p.X = q.X /\ E2Add(p.Y, q.Y) = 0 THEN Zero
    ELSE LET l == IF p.X = q.X
                  THEN E2Mul(E2Mul(3, E2Square(p.X)), E2Inverse(E2Mul(2, p.Y)))
                  ELSE E2Mul(E2Sub(q.Y, p.Y), E2Inverse(E2Sub(q.X, p.X)))
             xr == E2Sub(E2Sub(E2Square(l), p.X), q.X)
         IN Pt(xr, E2Sub(E2Mul(l, E2Sub(p.X, xr)), p.Y))

RECURSIVE GroupMul(_, _)
GroupMul(k, p) ==
    IF k = 0 THEN Zero
    ELSE LET h == GroupMul(k \div 2, p)
             h2 == GroupAdd(h, h)
         IN IF k % 2 = 1 THEN GroupAdd(h2, p) ELSE h2

-----------------------------------------------------------------------------
(* Scalar decomposition *)

RECURSIVE BitLen(_)
BitLen(n) == IF n = 0 THEN 0 ELSE 1 + BitLen(n \div 2)

(* big.Int.Bit for a non-negative k and i >= 0; also bit i of ToBinary *)
Bit(k, i) == (k \div (2 ^ i)) % 2

Abs(n) == IF n < 0 THEN 0 - n ELSE n

(* cc.glvBasis: ecc.PrecomputeLattice(fr, lambda). As fr = lambda*(lambda+1) + 1 *)
(* and lambda = isqrt(fr), the Euclidean loop does not iterate.             *)
glvBasis == [V1 |-> <<lambda, -1>>, V2 |-> <<1, lambda + 1>>, Det |-> fr]

(* closest integer to n/d *)
Rounding(n, d) ==
    IF (n % d) > (d \div 2) THEN (n \div d) + 1 ELSE n \div d

(* ecc.SplitScalar: u, v with u + v*lambda = s mod fr *)
SplitScalar(s) ==
    LET k1 == Rounding(s * glvBasis.V2[2], glvBasis.Det)
        k2 == Rounding(0 - (s * glvBasis.V1[2]), glvBasis.Det)
        v0 == k1 * glvBasis.V1[1] + k2 * glvBasis.V2[1]
        v1 == k1 * glvBasis.V1[2] + k2 * glvBasis.V2[2]
    IN <<s - v0, 0 - v1>>

(* The adjustment loop of the hint, lines 206-210; n counts the iterations  *)
(* and the loop is cut after MaxAdjust of them (done = FALSE).              *)
RECURSIVE HintAdjust_Once(_, _, _)
HintAdjust_Once(res0, res1, n) ==
    IF n = 0 /\ res0 <= lambda /\ res1 <= lambda
    THEN HintAdjust_Once(res0 + lambda + 1, res1 + lambda, n + 1)
    ELSE [s1 |-> res0, s2 |-> res1, iters |-> n, done |-> TRUE]

RECURSIVE HintAdjust(_, _, _)
HintAdjust(res0, res1, n) ==
    IF res0 <= lambda /\ res1 <= lambda
    THEN IF n >= MaxAdjust
         THEN [s1 |-> res0, s2 |-> res1, iters |-> n, done |-> FALSE]
         ELSE HintAdjust(res0 + lambda + 1, res1 + lambda, n + 1)
    ELSE [s1 |-> res0, s2 |-> res1, iters |-> n, done |-> TRUE]

(* The overflow count of the hint, lines 212-214 (Div is Euclidean) *)
HintOverflow_NoLow(s, s1, s2) == ((s2 * lambda) - s) \div fr

HintOverflow(s, s1, s2) == ((s2 * lambda + s1) - s) \div fr

DecomposeScalarG2(s) ==
    LET sp == SplitScalar(s)
        a == HintAdjust(sp[1], sp[2], 0)
    IN [s1 |-> a.s1, s2 |-> a.s2, k |-> HintOverflow(s, a.s1, a.s2),
        sp |-> sp, iters |-> a.iters, done |-> a.done]

-----------------------------------------------------------------------------
(* Scalar multiplication *)

(* Call by value: v is computed first, then F is applied to the value.     *)
Eval(v, F(_)) == CHOOSE r \in {F(x) : x \in {v}} : TRUE

(* cc.phi2: X scaled by thirdRootOne2, Y kept *)
phi2(p) == [p EXCEPT !.X = E2MulByFp(p.X, thirdRootOne2)]

(* B.X = x; B.Y.Select(b, pos.Y, neg.Y) *)
SelectY(b, x, pos, neg) ==
    [X |-> x, Y |-> E2Select(b, pos.Y, neg.Y),
     sat |-> pos.sat /\ neg.sat, nz |-> pos.nz /\ neg.nz]

(* api.ToBinary(v, n) is satisfiable iff v has n bits *)
ToBinarySat(v, n) == v >= 0 /\ v < 2 ^ n

(* One leading step of varScalarMul, lines 302-307 and 310-315 *)
VarLead(Acc, Q, s1, s2, i) ==
    LET B1 == SelectY(Bit(s1, i) = 1, Neg(Q).X, Q, Neg(Q))
        A1 == DoubleAndAdd(Acc, B1)
        B2 == SelectY(Bit(s2, i) = 1, Neg(phi2(Q)).X, phi2(Q), Neg(phi2(Q)))
    IN AddAssign(A1, B2)

(* The loop of varScalarMul, lines 317-324, from bit i down to bit 1 *)
RECURSIVE VarLoop(_, _, _, _, _)
VarLoop(Acc, Q, s1, s2, i) ==
    IF i > 0
    THEN LET B == SelectY(Bit(s1, i) = 1, Q.X, Q, Neg(Q))
             B2 == SelectY(Bit(s2, i) = 1, Neg(phi2(Q)).X, phi2(Q), Neg(phi2(Q)))
         IN Eval(DoubleAndAdd(Acc, AddAssign(B, B2)),
                 LAMBDA A : VarLoop(A, Q, s1, s2, i - 1))
    ELSE Acc

VarCorrect_AlwaysIncomplete(Acc, Q, s1, s2, cplt, selector) ==
    LET t1 == AddAssign(Neg(Q), Acc)
        A1 == Select(Bit(s1, 0) = 1, Acc, t1)
        t2 == AddAssign(Neg(phi2(Q)), A1)
    IN Select(Bit(s2, 0) = 1, A1, t2)

(* The bit-0 corrections of varScalarMul, lines 329-341 *)
VarCorrect(Acc, Q, s1, s2, cplt, selector) ==
    IF cplt
    THEN LET t1 == AddUnified(Neg(Q), Acc)
             A1 == Select(Bit(s1, 0) = 1, Acc, t1)
             t2 == AddUnified(Neg(phi2(Q)), A1)
             A2 == Select(Bit(s2, 0) = 1, A1, t2)
         IN Select(selector, Zero, A2)
    ELSE LET t1 == AddAssign(Neg(Q), Acc)
             A1 == Select(Bit(s1, 0) = 1, Acc, t1)
             t2 == AddAssign(Neg(phi2(Q)), A1)
         IN Select(Bit(s2, 0) = 1, A1, t2)

(* varScalarMul sets P = [s] Q and returns P *)
varScalarMul(Q0, s, cplt) ==
    LET selector == cplt /\ E2IsZero(Q0.X) /\ E2IsZero(Q0.Y)
        Q == IF cplt THEN Select(selector, Pt(1, 1), Q0) ELSE Q0
        sd == DecomposeScalarG2(s)
        assertSat == sd.s1 + sd.s2 * lambda = s + fr * sd.k
        nbits == BitLen(lambda) + 1
        binSat == ToBinarySat(sd.s1, nbits) /\ ToBinarySat(sd.s2, nbits)
        Init0 == AddAssign(Q, phi2(Q))
        Lead1(A) == VarLead(A, Q, sd.s1, sd.s2, nbits - 1)
        Lead2(A) == VarLead(A, Q, sd.s1, sd.s2, nbits - 2)
        Loop(A) == VarLoop(A, Q, sd.s1, sd.s2, nbits - 3)
        Correct(A) == VarCorrect(A, Q, sd.s1, sd.s2, cplt, selector)
        Acc == Eval(Eval(Eval(Eval(Init0, Lead1), Lead2), Loop), Correct)
    IN [Acc EXCEPT !.sat = @ /\ sd.done /\ assertSat /\ binSat]

(* The special step of constScalarMul for two set top bits, lines 405-414 *)
ConstTop(Acc, t3, cplt) ==
    IF cplt THEN AddUnified(AddUnified(Acc, Acc), t3)
    ELSE AddAssign(Double(Acc), t3)

(* The loop of constScalarMul, lines 415-422; table is <<table[0..3]>> *)
RECURSIVE ConstLoop(_, _, _, _, _, _)
ConstLoop(Acc, table, k0, k1, i, cplt) ==
    IF i > 0
    THEN LET e == table[Bit(k0, i) + 2 * Bit(k1, i) + 1]
             A == IF cplt THEN AddUnified(AddUnified(Acc, Acc), e)
                  ELSE DoubleAndAdd(Acc, e)
         IN Eval(A, LAMBDA A1 : ConstLoop(A1, table, k0, k1, i - 1, cplt))
    ELSE Acc

(* The bit-0 corrections of constScalarMul, lines 425-435 *)
ConstCorrect(Acc, negQ, negPhiQ, k0, k1, cplt) ==
    LET t1 == IF cplt THEN AddUnified(negQ, Acc) ELSE AddAssign(negQ, Acc)
        A1 == Select(Bit(k0, 0) = 1, Acc, t1)
        t2 == IF cplt THEN AddUnified(negPhiQ, A1) ELSE AddAssign(negPhiQ, A1)
    IN Select(Bit(k1, 0) = 1, A1, t2)

(* What a call returns: the point, whether the build panicked, and the      *)
(* number of point operations emitted (phi2, additions, doublings and       *)
(* double-and-adds; Neg and Select are not counted)                         *)
Ret(p, panicked, n) ==
    [X |-> p.X, Y |-> p.Y, sat |-> p.sat, nz |-> p.nz, panic |-> panicked, ops |-> n]

(* constScalarMul sets P = [s] Q and returns P *)
constScalarMul(Q0, s0, cplt) ==
    IF BitLen(s0) = 0 THEN Ret(Zero, FALSE, 0)
    ELSE
    LET s == s0 % fr
        phiQ0 == phi2(Q0)
        k == SplitScalar(s)
        Q == IF k[1] < 0 THEN Neg(Q0) ELSE Q0
        phiQ == IF k[2] < 0 THEN Neg(phiQ0) ELSE phiQ0
        k0 == Abs(k[1])
        k1 == Abs(k[2])
        nbits0 == IF BitLen(k1) > BitLen(k0) THEN BitLen(k1) ELSE BitLen(k0)
        negQ == Neg(Q)
        negPhiQ == Neg(phiQ)
        table == IF cplt
                 THEN <<AddUnified(negQ, negPhiQ), AddUnified(Q, negPhiQ),
                        AddUnified(negQ, phiQ), AddUnified(Q, phiQ)>>
                 ELSE <<AddAssign(negQ, negPhiQ), AddAssign(Q, negPhiQ),
                        AddAssign(negQ, phiQ), AddAssign(Q, phiQ)>>
        tableSat == \A j \in 1 .. 4 : table[j].sat
        tableNz == \A j \in 1 .. 4 : table[j].nz
    IN IF nbits0 - 1 < 0
       THEN Ret(Zero, TRUE, 5)
       ELSE
       LET top == Bit(k0, nbits0 - 1) = 1 /\ Bit(k1, nbits0 - 1) = 1
           Acc1 == IF top THEN ConstTop(table[4], table[4], cplt) ELSE table[4]
           nbits == IF top THEN nbits0 - 1 ELSE nbits0
           Loop(A) == ConstLoop(A, table, k0, k1, nbits - 1, cplt)
           Correct(A) == ConstCorrect(A, negQ, negPhiQ, k0, k1, cplt)
           Acc3 == Eval(Eval(Acc1, Loop), Correct)
           loops == IF nbits - 1 > 0 THEN nbits - 1 ELSE 0
       IN Ret([Acc3 EXCEPT !.sat = @ /\ tableSat, !.nz = @ /\ tableNz], FALSE,
              7 + (IF top THEN 2 ELSE 0) + (IF cplt THEN 2 * loops ELSE loops))

(* Point operations emitted by varScalarMul, the same for every input:     *)
(* phi2, Q + phi(Q), two leading steps of two operations, nbits - 3 loop   *)
(* iterations of two operations, and the two bit-0 corrections             *)
varScalarMulOps == 8 + 2 * ((BitLen(lambda) + 1) - 3)

(* ScalarMul: constScalarMul for a compile-time constant, else varScalarMul *)
ScalarMul(Q, s, isConst, cplt) ==
    IF isConst THEN constScalarMul(Q, s, cplt)
    ELSE Ret(varScalarMul(Q, s, cplt), FALSE, varScalarMulOps)

(* doubleN doubles Q in place n times and returns it; the receiver is not  *)
(* used.  The n successive doublings are evaluated as two runs of          *)
(* n \div 2 and n - n \div 2 doublings, which bounds the evaluation depth.  *)
RECURSIVE doubleN(_, _)
doubleN(Q, n) ==
    IF n <= 0 THEN Q
    ELSE IF n = 1 THEN Double(Q)
    ELSE Eval(doubleN(Q, n \div 2), LAMBDA pn : doubleN(pn, n - (n \div 2)))

(* scalarMulBySeed: the fixed addition chain of lines 166-188 *)
scalarMulBySeed(Q) ==
    LET F1(z) == AddAssign(z, Q)
        F2(z) == DoubleAndAdd(z, Q)
        F3(z) ==
            LET G1(t0) == Double(t0)
                G2(t0) ==
                    LET H1(z1) ==
                            LET K1(t1) == AddAssign(t1, z1)
                                K2(t1) == AddAssign(t0, t1)
                                K3(t00) == doubleN(t00, 9)
                                K4(t00) == DoubleAndAdd(t00, z1)
                                K5(z2) == doubleN(z2, 45)
                                K6(z2) == DoubleAndAdd(z2, Q)
                            IN Eval(Eval(Eval(Eval(Eval(Eval(Double(z1),
                                   K1), K2), K3), K4), K5), K6)
                    IN Eval(AddAssign(z, t0), H1)
            IN Eval(Eval(Double(z), G1), G2)
    IN Eval(Eval(Eval(Double(Q), F1), F2), F3)

(* Conjugate on E2; the scaled-down field has no imaginary part *)
E2Conjugate(a) == a

(* psi: both coordinates conjugated and scaled by fixed Fp constants *)
psi(q) ==
    [q EXCEPT !.X = E2MulByFp(E2Conjugate(q.X), psiCoeffX),
              !.Y = E2MulByFp(E2Conjugate(q.Y), psiCoeffY)]

(* getTwistPoints: the generator, 3G, 5G, 7G and [2^i]G *)
Generator == Pt(2, 12)
NbBase == BitLen(fr)
G2m(i) == IF i < 3 THEN GroupMul(2 * i + 3, Generator) ELSE GroupMul(2 ^ i, Generator)

(* Lookup2(b0, b1, i0, i1, i2, i3) on both coordinates, lines 501-526 *)
BaseLookup(s) ==
    LET j == Bit(s, 1) + 2 * Bit(s, 2)
    IN IF j = 0 THEN Generator ELSE G2m(j - 1)

(* The loop of ScalarMulBase, lines 528-540, from bit i up to NbBase - 1 *)
RECURSIVE BaseLoop(_, _, _)
BaseLoop(res, s, i) ==
    IF i < NbBase
    THEN LET tmp == AddAssign(res, G2m(i))
         IN Eval(Select(Bit(s, i) = 1, tmp, res), LAMBDA r : BaseLoop(r, s, i + 1))
    ELSE res

(* ScalarMulBase computes s * g2, g2 the fixed generator *)
ScalarMulBase(s) ==
    LET Loop(r) == BaseLoop(r, s, 3)
        Correct(r) == Select(Bit(s, 0) = 1, r, AddAssign(Neg(Generator), r))
        res == Eval(Eval(BaseLookup(s), Loop), Correct)
    IN [res EXCEPT !.sat = @ /\ ToBinarySat(s, NbBase)]

-----------------------------------------------------------------------------
(* Point arithmetic: one call of one method on operands drawn at Init *)

ArithOps ==
    {"Neg", "AddAssign", "AddUnified", "Select", "Double", "doubleN",
     "scalarMulBySeed", "Assign", "AssertIsEqual", "DoubleAndAdd", "psi"}

UnaryOps == {"Neg", "Double", "doubleN", "scalarMulBySeed", "psi"}

InitArith ==
    /\ op \in ArithOps
    /\ in1 \in InputPoints
    /\ in2 \in InputPoints
    /\ sc \in 0 .. MaxDoubleN
    /\ (op = "Select" => sc \in 0 .. 1)
    /\ (op \notin {"Select", "doubleN"} => sc = 0)
    /\ complete = FALSE
    /\ alias \in BOOLEAN
    /\ (op # "DoubleAndAdd" => alias = TRUE)
    /\ (op \in UnaryOps => in2 = Zero)
    /\ obj1 = in1
    /\ out = Zero
    /\ pc = "ready"

(* p.AddAssign(p1): the receiver is the first operand *)
DoAddAssign ==
    /\ pc = "ready" /\ op = "AddAssign"
    /\ out' = AddAssign(obj1, in2)
    /\ obj1' = out'
    /\ pc' = "done"
    /\ UNCHANGED <<op, in1, in2, sc, complete, alias>>

DoAddUnified ==
    /\ pc = "ready" /\ op = "AddUnified"
    /\ out' = AddUnified(obj1, in2)
    /\ obj1' = out'
    /\ pc' = "done"
    /\ UNCHANGED <<op, in1, in2, sc, complete, alias>>

(* p.Double(p1) with p the object of p1, as in doubleN *)
DoDouble ==
    /\ pc = "ready" /\ op = "Double"
    /\ out' = Double(obj1)
    /\ obj1' = out'
    /\ pc' = "done"
    /\ UNCHANGED <<op, in1, in2, sc, complete, alias>>

(* p.DoubleAndAdd(p1, p2); with alias the receiver p is the object of p1 *)
DoDoubleAndAdd ==
    /\ pc = "ready" /\ op = "DoubleAndAdd"
    /\ out' = DoubleAndAdd(obj1, in2)
    /\ obj1' = IF alias THEN out' ELSE obj1
    /\ pc' = "done"
    /\ UNCHANGED <<op, in1, in2, sc, complete, alias>>

(* p.Neg(p1) with p the object of p1 *)
DoNeg ==
    /\ pc = "ready" /\ op = "Neg"
    /\ out' = Neg(obj1)
    /\ obj1' = out'
    /\ pc' = "done"
    /\ UNCHANGED <<op, in1, in2, sc, complete, alias>>

(* p.Select(b, p1, p2) with p the object of p1; sc is the boolean b *)
DoSelect ==
    /\ pc = "ready" /\ op = "Select"
    /\ out' = Select(sc = 1, obj1, in2)
    /\ obj1' = out'
    /\ pc' = "done"
    /\ UNCHANGED <<op, in1, in2, sc, complete, alias>>

(* P.doubleN(Q, n): Q is doubled in place, sc is n *)
DoDoubleN ==
    /\ pc = "ready" /\ op = "doubleN"
    /\ out' = doubleN(obj1, sc)
    /\ obj1' = out'
    /\ pc' = "done"
    /\ UNCHANGED <<op, in1, in2, sc, complete, alias>>

(* P.scalarMulBySeed(Q) with P the object of Q *)
DoScalarMulBySeed ==
    /\ pc = "ready" /\ op = "scalarMulBySeed"
    /\ out' = scalarMulBySeed(obj1)
    /\ obj1' = out'
    /\ pc' = "done"
    /\ UNCHANGED <<op, in1, in2, sc, complete, alias>>

(* p.Assign(p1): the receiver takes the coordinates of the native point *)
DoAssign ==
    /\ pc = "ready" /\ op = "Assign"
    /\ out' = Pt(in2.X, in2.Y)
    /\ obj1' = out'
    /\ pc' = "done"
    /\ UNCHANGED <<op, in1, in2, sc, complete, alias>>

(* p.AssertIsEqual(other): two equality constraints, the receiver is kept *)
DoAssertIsEqual ==
    /\ pc = "ready" /\ op = "AssertIsEqual"
    /\ out' = [obj1 EXCEPT !.sat = @ /\ in2.sat /\ obj1.X = in2.X /\ obj1.Y = in2.Y,
                           !.nz = @ /\ in2.nz]
    /\ pc' = "done"
    /\ UNCHANGED <<op, in1, in2, sc, complete, alias, obj1>>

(* P.psi(q) with P the object of q *)
DoPsi ==
    /\ pc = "ready" /\ op = "psi"
    /\ out' = psi(obj1)
    /\ obj1' = out'
    /\ pc' = "done"
    /\ UNCHANGED <<op, in1, in2, sc, complete, alias>>

NextArith ==
    \/ DoNeg \/ DoAddAssign \/ DoAddUnified \/ DoSelect \/ DoDouble
    \/ DoDoubleN \/ DoScalarMulBySeed \/ DoAssign \/ DoAssertIsEqual
    \/ DoDoubleAndAdd \/ DoPsi

SpecArith == InitArith /\ [][NextArith]_vars

-----------------------------------------------------------------------------
(* The hint alone: one call on a scalar drawn at Init *)

InitHint ==
    /\ op = "DecomposeScalarG2"
    /\ sc \in 0 .. MaxHintInput
    /\ in1 = Zero /\ in2 = Zero /\ obj1 = Zero
    /\ complete = FALSE /\ alias = FALSE
    /\ out = Zero
    /\ pc = "ready"

DoDecomposeScalarG2 ==
    /\ pc = "ready" /\ op = "DecomposeScalarG2"
    /\ out' = DecomposeScalarG2(sc)
    /\ pc' = "done"
    /\ UNCHANGED <<op, in1, in2, sc, complete, alias, obj1>>

NextHint == DoDecomposeScalarG2

SpecHint == InitHint /\ [][NextHint]_vars

-----------------------------------------------------------------------------
(* Scalar multiplication: one call on a point and a scalar drawn at Init *)

InitScalarMul ==
    /\ op \in {"varScalarMul", "constScalarMul"}
    /\ in1 \in ValidPoints
    /\ sc \in 0 .. (IF op = "constScalarMul" THEN MaxConstScalar ELSE fr - 1)
    /\ complete \in BOOLEAN
    /\ in2 = Zero /\ obj1 = Zero /\ alias = FALSE
    /\ out = Zero
    /\ pc = "ready"

(* P.ScalarMul(Q, s) with s a witness variable *)
DoVarScalarMul ==
    /\ pc = "ready" /\ op = "varScalarMul"
    /\ out' = ScalarMul(in1, sc, FALSE, complete)
    /\ pc' = "done"
    /\ UNCHANGED <<op, in1, in2, sc, complete, alias, obj1>>

(* P.ScalarMul(Q, s) with s a compile-time constant *)
DoConstScalarMul ==
    /\ pc = "ready" /\ op = "constScalarMul"
    /\ out' = ScalarMul(in1, sc, TRUE, complete)
    /\ pc' = "done"
    /\ UNCHANGED <<op, in1, in2, sc, complete, alias, obj1>>

NextScalarMul == DoVarScalarMul \/ DoConstScalarMul

SpecScalarMul == InitScalarMul /\ [][NextScalarMul]_vars

InitBase ==
    /\ op = "ScalarMulBase"
    /\ sc \in 0 .. (2 ^ NbBase - 1)
    /\ in1 = Generator
    /\ in2 = Zero /\ obj1 = Zero /\ alias = FALSE /\ complete = FALSE
    /\ out = Zero
    /\ pc = "ready"

DoScalarMulBase ==
    /\ pc = "ready" /\ op = "ScalarMulBase"
    /\ out' = ScalarMulBase(sc)
    /\ pc' = "done"
    /\ UNCHANGED <<op, in1, in2, sc, complete, alias, obj1>>

NextBase == DoScalarMulBase

SpecBase == InitBase /\ [][NextBase]_vars

Init == InitArith \/ InitHint \/ InitScalarMul \/ InitBase

Next == NextArith \/ NextHint \/ NextScalarMul \/ NextBase

Spec == Init /\ [][Next]_vars

-----------------------------------------------------------------------------
(* Claims on the point arithmetic, checked under SpecArith *)

DoneOp(o) == pc = "done" /\ op = o

(* C5, as stated: the sentinel (0,0) is a two-sided identity of AddUnified  *)
(* and the selectors have the priority selector1, selector2, selector3, so  *)
(* that an identity case wins whenever it applies, also against an operand  *)
(* with Y = 0.                                                              *)
C5_IdentityCasesWin ==
    DoneOp("AddUnified") =>
        /\ (IsSentinel(in1) => Coords(out) = Coords(in2))
        /\ (~IsSentinel(in1) /\ IsSentinel(in2) => Coords(out) = Coords(in1))

(* C5, amended: (0,0) is a two-sided identity of AddUnified on the valid    *)
(* points; the selectors are applied in the order selector1, selector2,     *)
(* selector3 with the last one overriding, so whenever P.Y + Q.Y = 0 the    *)
(* result is (0,0), also when an operand is (0,0).                          *)
C5_IdentityOnValidPoints ==
    DoneOp("AddUnified") =>
        /\ (IsSentinel(in1) /\ in2 \in ValidPoints => Coords(out) = Coords(in2))
        /\ (IsSentinel(in2) /\ in1 \in ValidPoints => Coords(out) = Coords(in1))
        /\ (E2Add(in1.Y, in2.Y) = 0 => Coords(out) = <<0, 0>>)
        /\ out.sat

C5_Witness ==
    /\ DoneOp("AddUnified")
    /\ IsSentinel(in1) /\ in2 \in CurvePoints
    /\ Coords(out) = Coords(in2)

(* C6: AddUnified realizes the complete group law: for all valid P, Q the   *)
(* result is the group sum P + Q; it is (0,0) for two non-identity points   *)
(* only when Q = Neg(P).                                                    *)
C6_CompleteGroupLaw ==
    DoneOp("AddUnified") /\ in1 \in ValidPoints /\ in2 \in ValidPoints =>
        Coords(out) = Coords(GroupAdd(in1, in2))

(* C7, as stated: for curve points P1 # P2 with P1.X # P2.X and x3 # P1.X,  *)
(* DoubleAndAdd(P1, P2) is the point Add(Double(P1), P2).                   *)
C7Pre ==
    /\ in1 \in CurvePoints /\ in2 \in CurvePoints
    /\ in1.X # in2.X
    /\ DoubleAndAddX3(in1, in2) # in1.X

C7_DoubleAndAddIsAddDouble ==
    DoneOp("DoubleAndAdd") /\ C7Pre =>
        Coords(out) = Coords(AddAssign(Double(in1), in2))

(* C7, amended: under the same preconditions and Double(P1).X # P2.X (the   *)
(* precondition of the Add on the right-hand side), DoubleAndAdd(P1, P2) is *)
(* Add(Double(P1), P2) = 2*P1 + P2, no denominator is zero, and with the    *)
(* receiver aliasing P1 the object of P1 holds that result.                 *)
C7_DoubleAndAddAmended ==
    DoneOp("DoubleAndAdd") /\ C7Pre /\ Double(in1).X # in2.X =>
        /\ Coords(out) = Coords(AddAssign(Double(in1), in2))
        /\ Coords(out) = Coords(GroupAdd(GroupAdd(in1, in1), in2))
        /\ out.sat /\ out.nz
        /\ (alias => Coords(obj1) = Coords(GroupAdd(GroupAdd(in1, in1), in2)))
        /\ (~alias => obj1 = in1)

C7_Witness ==
    /\ DoneOp("DoubleAndAdd") /\ C7Pre /\ Double(in1).X # in2.X
    /\ alias
    /\ Coords(obj1) = Coords(GroupAdd(GroupAdd(in1, in1), in2))

-----------------------------------------------------------------------------
(* Claims on the hint, checked under SpecHint *)

nbitsVar == BitLen(lambda) + 1

(* C4: for every input s the hint's (s1, s2, k) satisfy                     *)
(* s1 + lambda*s2 = s + fr*k over the integers, the division by fr is       *)
(* exact, and s1, s2 are non-negative and fit in bitlength(lambda)+1 bits.  *)
C4_HintRelation ==
    DoneOp("DecomposeScalarG2") =>
        /\ out.done
        /\ out.s1 + lambda * out.s2 = sc + fr * out.k
        /\ ((out.s2 * lambda + out.s1) - sc) % fr = 0
        /\ out.s1 >= 0 /\ out.s1 < 2 ^ nbitsVar
        /\ out.s2 >= 0 /\ out.s2 < 2 ^ nbitsVar

C4_Witness ==
    /\ DoneOp("DecomposeScalarG2")
    /\ out.sp[1] < 0 /\ out.iters = 2 /\ sc > fr
    /\ out.s1 + lambda * out.s2 = sc + fr * out.k

(* C9, as stated: the loop terminates and on return s1 > lambda and         *)
(* s2 > lambda both hold.                                                   *)
C9_BothExceedLambda ==
    DoneOp("DecomposeScalarG2") =>
        out.done /\ out.s1 > lambda /\ out.s2 > lambda

(* C9, amended: the loop adds (lambda+1, lambda) while both s1 <= lambda    *)
(* and s2 <= lambda; it terminates (after at most two additions) and on     *)
(* return at least one of s1 > lambda, s2 > lambda holds.                   *)
C9_OneExceedsLambda ==
    DoneOp("DecomposeScalarG2") =>
        /\ out.done /\ out.iters <= 2
        /\ (out.s1 > lambda \/ out.s2 > lambda)
        /\ out.s1 = out.sp[1] + out.iters * (lambda + 1)
        /\ out.s2 = out.sp[2] + out.iters * lambda

C9_Witness ==
    /\ DoneOp("DecomposeScalarG2")
    /\ out.done /\ out.iters = 2
    /\ out.s1 > lambda /\ out.s2 > lambda

-----------------------------------------------------------------------------
(* Claims on the scalar multiplications, checked under SpecScalarMul and   *)
(* SpecBase                                                                *)

(* the call returned the native [k]q and its constraints are satisfiable *)
Returns(k, q) ==
    out.sat /\ ~out.panic /\ Coords(out) = Coords(GroupMul(k, q))

(* C1: varScalarMul returns [s]Q for every non-identity point Q and every   *)
(* scalar s in [0, fr), for either setting of CompleteArithmetic.           *)
C1_VarScalarMulCorrect ==
    DoneOp("varScalarMul") /\ in1 \in CurvePoints => Returns(sc, in1)

(* C2: constScalarMul returns [s]Q for every non-identity point Q and every *)
(* constant s in [0, fr), for every sign and bit length of the two          *)
(* half-scalars (stated for the default options, CompleteArithmetic off).   *)
C2_ConstScalarMulCorrect ==
    DoneOp("constScalarMul") /\ ~complete /\ in1 \in CurvePoints /\ sc < fr =>
        Returns(sc, in1)

(* C8: a zero scalar yields the identity: for every valid Q, constScalarMul *)
(* with s = 0 returns (0,0) without emitting a point operation, and         *)
(* varScalarMul with s = 0 under CompleteArithmetic returns (0,0).          *)
C8_ZeroScalar ==
    /\ DoneOp("constScalarMul") /\ sc = 0 =>
           Coords(out) = <<0, 0>> /\ out.ops = 0 /\ out.sat /\ ~out.panic
    /\ DoneOp("varScalarMul") /\ sc = 0 /\ complete =>
           Coords(out) = <<0, 0>> /\ out.sat

C8_Witness ==
    /\ DoneOp("varScalarMul") /\ sc = 0 /\ complete
    /\ in1 \in CurvePoints
    /\ Coords(out) = <<0, 0>> /\ out.sat

(* C10: in varScalarMul without CompleteArithmetic, for every non-identity  *)
(* point Q and every s in [0, fr), no AddAssign has operands with equal X   *)
(* and no DoubleAndAdd has P1.X = P2.X or x3 = P1.X: no DivUnchecked has a  *)
(* zero denominator.                                                        *)
C10_NoZeroDenominator ==
    DoneOp("varScalarMul") /\ ~complete /\ in1 \in CurvePoints => out.nz

(* C3: for every s of NbBase bits, ScalarMulBase(s) is [s]G, and every      *)
(* incomplete addition on the way has operands with distinct X.             *)
C3_ScalarMulBaseCorrect ==
    DoneOp("ScalarMulBase") =>
        /\ out.sat /\ out.nz
        /\ Coords(out) = Coords(GroupMul(sc, Generator))

(* C11: for every constant s # 0 with s mod fr = 0 (for example s = fr),     *)
(* constScalarMul returns (0,0) and does not abort: with both half-scalars  *)
(* zero and nbits = 0, no bit index below zero is read.                     *)
C11_MultipleOfOrderReturnsZero ==
    DoneOp("constScalarMul") /\ sc # 0 /\ sc % fr = 0 =>
        Coords(out) = <<0, 0>> /\ ~out.panic

====
